---- MODULE Spec2Model ----
(***************************************************************************)
(* Model of ac_app.c: an infrared air-conditioner scheduler driven by      *)
(* three one-shot timers (signal, sequence, countdown) whose callbacks run *)
(* on the timer service, and a main thread that starts the application,    *)
(* waits for the exit event and tears the timers down.                     *)
(*                                                                         *)
(* Time is event driven: every armed timer carries the milliseconds left   *)
(* until it expires; Advance moves time to the earliest expiry and the     *)
(* Fire actions run the callback of a timer that has expired.  A callback  *)
(* is one atomic step (the timer service serialises callbacks); the main   *)
(* thread's statements interleave freely with expiries and callbacks.      *)
(***************************************************************************)
EXTENDS Integers, Sequences, FiniteSets, TLC

\* ---------------------------------------------------------------- bounds
\* Transmissions recorded before the model stops transmitting.
MaxTx == 8
\* Back short-presses delivered by the input service.
MaxPresses == 2

\* ------------------------------------------------------------- constants
one_second_interval == 1000
one_minute_interval == 60000
one_hour_interval == 3600000
three_hour_interval == 10800000

ir_address_1 == 28568 \* 0x00006F98
ir_command_1 == 58905 \* 0x0000E619, power button
ir_command_2 == 63240 \* 0x0000F708, mode button

EventQueueCapacity == 8

AcSequenceIdle == "AcSequenceIdle"
AcSequenceTurnOnStep1 == "AcSequenceTurnOnStep1"
AcSequenceTurnOnStep2 == "AcSequenceTurnOnStep2"

AcSequenceState == {AcSequenceIdle, AcSequenceTurnOnStep1, AcSequenceTurnOnStep2}

TimerIds == {"signal_timer", "countdown_timer", "sequence_timer"}

VARIABLES
    ac_is_on,             \* believed device state
    next_signal_interval, \* schedule interval, ms
    remaining_time,       \* displayed countdown, ms
    sequence_state,       \* turn-on sequencer state
    timers,               \* signal_timer, countdown_timer, sequence_timer
    tx,                   \* infrared messages transmitted so far
    pc,                   \* position of the main thread in ac_app_app
    event_queue,          \* number of exit events queued
    presses,              \* Back short-presses delivered so far
    use_after_free,       \* a timer call was made on a freed timer
    crashed,              \* the firmware halted on such a call
    step,                 \* kind of the last step taken
    cleanup_log,          \* timer calls made by the cleanup code, in order
    exit_snapshot,        \* sequencer state and #tx when the exit was received
    seq_leaves,           \* Idle -> non-Idle changes since the last OFF->ON
    seq_returns           \* non-Idle -> Idle changes since the last OFF->ON

vars == <<ac_is_on, next_signal_interval, remaining_time, sequence_state,
          timers, tx, pc, event_queue, presses, use_after_free, crashed,
          step, cleanup_log, exit_snapshot, seq_leaves, seq_returns>>

\* ------------------------------------------------------- timer service
\* A timer that is allocated and not running.
TimerStopped == [armed |-> FALSE, interval |-> 0, left |-> 0, freed |-> FALSE]
\* A timer whose memory has been released.
TimerFreed == [armed |-> FALSE, interval |-> 0, left |-> 0, freed |-> TRUE]
TimerArmed(ms) == [armed |-> TRUE, interval |-> ms, left |-> ms, freed |-> FALSE]

\* The part of the state the callbacks read and write, as a record.
\* uaf is set by a timer call on a freed timer during the callback.
CallbackState ==
    [ac_is_on |-> ac_is_on,
     next_signal_interval |-> next_signal_interval,
     remaining_time |-> remaining_time,
     sequence_state |-> sequence_state,
     timers |-> timers,
     tx |-> tx,
     uaf |-> FALSE]

furi_timer_start(s, id, ms) ==
    IF s.timers[id].freed
    THEN [s EXCEPT !.uaf = TRUE]
    ELSE [s EXCEPT !.timers[id] = TimerArmed(ms)]

furi_timer_stop(s, id) ==
    IF s.timers[id].freed
    THEN [s EXCEPT !.uaf = TRUE]
    ELSE [s EXCEPT !.timers[id] = TimerStopped]

\* A one-shot timer is no longer running when its callback is called.
Expire(s, id) == [s EXCEPT !.timers[id] = TimerStopped]

\* ------------------------------------------------------------ callbacks
send_ir_signal(s, address, command) ==
    [s EXCEPT !.tx = Append(@, [address |-> address, command |-> command])]

\* Variant: the completion branch does not restart the signal timer.
sequence_step_callback_NoSignalRestart(s) ==
    IF s.sequence_state = AcSequenceTurnOnStep1
    THEN LET s1 == send_ir_signal(s, ir_address_1, ir_command_2)
             s2 == [s1 EXCEPT !.sequence_state = AcSequenceTurnOnStep2]
         IN  furi_timer_start(s2, "sequence_timer", one_second_interval)
    ELSE IF s.sequence_state = AcSequenceTurnOnStep2
    THEN LET s1 == send_ir_signal(s, ir_address_1, ir_command_2)
             s2 == [s1 EXCEPT !.sequence_state = AcSequenceIdle,
                              !.ac_is_on = TRUE,
                              !.next_signal_interval = one_hour_interval]
             s3 == [s2 EXCEPT !.remaining_time = s2.next_signal_interval]
         IN  furi_timer_stop(s3, "signal_timer")
    ELSE s

\* Variant: the callback has no Idle case and sends the mode code there too.
sequence_step_callback_IdleSends(s) ==
    IF s.sequence_state = AcSequenceTurnOnStep1
    THEN LET s1 == send_ir_signal(s, ir_address_1, ir_command_2)
             s2 == [s1 EXCEPT !.sequence_state = AcSequenceTurnOnStep2]
         IN  furi_timer_start(s2, "sequence_timer", one_second_interval)
    ELSE LET s1 == send_ir_signal(s, ir_address_1, ir_command_2)
             s2 == [s1 EXCEPT !.sequence_state = AcSequenceIdle,
                              !.ac_is_on = TRUE,
                              !.next_signal_interval = one_hour_interval]
             s3 == [s2 EXCEPT !.remaining_time = s2.next_signal_interval]
             s4 == furi_timer_stop(s3, "signal_timer")
         IN  furi_timer_start(s4, "signal_timer", s3.next_signal_interval)

\* Variant: the device is reported ON after the first mode code.
sequence_step_callback_EarlyOn(s) ==
    IF s.sequence_state = AcSequenceTurnOnStep1
    THEN LET s1 == send_ir_signal(s, ir_address_1, ir_command_2)
             s2 == [s1 EXCEPT !.sequence_state = AcSequenceTurnOnStep2,
                              !.ac_is_on = TRUE]
         IN  furi_timer_start(s2, "sequence_timer", one_second_interval)
    ELSE IF s.sequence_state = AcSequenceTurnOnStep2
    THEN LET s1 == send_ir_signal(s, ir_address_1, ir_command_2)
             s2 == [s1 EXCEPT !.sequence_state = AcSequenceIdle,
                              !.ac_is_on = TRUE,
                              !.next_signal_interval = one_hour_interval]
             s3 == [s2 EXCEPT !.remaining_time = s2.next_signal_interval]
             s4 == furi_timer_stop(s3, "signal_timer")
         IN  furi_timer_start(s4, "signal_timer", s3.next_signal_interval)
    ELSE s

\* Variant: the completion branch selects the three-hour interval.
sequence_step_callback_LongAfterOn(s) ==
    IF s.sequence_state = AcSequenceTurnOnStep1
    THEN LET s1 == send_ir_signal(s, ir_address_1, ir_command_2)
             s2 == [s1 EXCEPT !.sequence_state = AcSequenceTurnOnStep2]
         IN  furi_timer_start(s2, "sequence_timer", one_second_interval)
    ELSE IF s.sequence_state = AcSequenceTurnOnStep2
    THEN LET s1 == send_ir_signal(s, ir_address_1, ir_command_2)
             s2 == [s1 EXCEPT !.sequence_state = AcSequenceIdle,
                              !.ac_is_on = TRUE,
                              !.next_signal_interval = three_hour_interval]
             s3 == [s2 EXCEPT !.remaining_time = s2.next_signal_interval]
             s4 == furi_timer_stop(s3, "signal_timer")
         IN  furi_timer_start(s4, "signal_timer", s3.next_signal_interval)
    ELSE s

\* Variant: the first step does not re-arm the sequence timer.
sequence_step_callback_NoStepRearm(s) ==
    IF s.sequence_state = AcSequenceTurnOnStep1
    THEN LET s1 == send_ir_signal(s, ir_address_1, ir_command_2)
         IN  [s1 EXCEPT !.sequence_state = AcSequenceTurnOnStep2]
    ELSE IF s.sequence_state = AcSequenceTurnOnStep2
    THEN LET s1 == send_ir_signal(s, ir_address_1, ir_command_2)
             s2 == [s1 EXCEPT !.sequence_state = AcSequenceIdle,
                              !.ac_is_on = TRUE,
                              !.next_signal_interval = one_hour_interval]
             s3 == [s2 EXCEPT !.remaining_time = s2.next_signal_interval]
             s4 == furi_timer_stop(s3, "signal_timer")
         IN  furi_timer_start(s4, "signal_timer", s3.next_signal_interval)
    ELSE s

\* Variant: the first step sends the power code instead of the mode code.
sequence_step_callback_PowerFirst(s) ==
    IF s.sequence_state = AcSequenceTurnOnStep1
    THEN LET s1 == send_ir_signal(s, ir_address_1, ir_command_1)
             s2 == [s1 EXCEPT !.sequence_state = AcSequenceTurnOnStep2]
         IN  furi_timer_start(s2, "sequence_timer", one_second_interval)
    ELSE IF s.sequence_state = AcSequenceTurnOnStep2
    THEN LET s1 == send_ir_signal(s, ir_address_1, ir_command_2)
             s2 == [s1 EXCEPT !.sequence_state = AcSequenceIdle,
                              !.ac_is_on = TRUE,
                              !.next_signal_interval = one_hour_interval]
             s3 == [s2 EXCEPT !.remaining_time = s2.next_signal_interval]
             s4 == furi_timer_stop(s3, "signal_timer")
         IN  furi_timer_start(s4, "signal_timer", s3.next_signal_interval)
    ELSE s

\* Variant: the first step arms the signal timer instead of the sequence timer.
sequence_step_callback_WrongTimer(s) ==
    IF s.sequence_state = AcSequenceTurnOnStep1
    THEN LET s1 == send_ir_signal(s, ir_address_1, ir_command_2)
             s2 == [s1 EXCEPT !.sequence_state = AcSequenceTurnOnStep2]
         IN  furi_timer_start(s2, "signal_timer", one_second_interval)
    ELSE IF s.sequence_state = AcSequenceTurnOnStep2
    THEN LET s1 == send_ir_signal(s, ir_address_1, ir_command_2)
             s2 == [s1 EXCEPT !.sequence_state = AcSequenceIdle,
                              !.ac_is_on = TRUE,
                              !.next_signal_interval = one_hour_interval]
             s3 == [s2 EXCEPT !.remaining_time = s2.next_signal_interval]
             s4 == furi_timer_stop(s3, "signal_timer")
         IN  furi_timer_start(s4, "signal_timer", s3.next_signal_interval)
    ELSE s

sequence_step_callback(s) ==
    IF s.sequence_state = AcSequenceTurnOnStep1
    THEN LET s1 == send_ir_signal(s, ir_address_1, ir_command_2)
             s2 == [s1 EXCEPT !.sequence_state = AcSequenceTurnOnStep2]
         IN  furi_timer_start(s2, "sequence_timer", one_second_interval)
    ELSE IF s.sequence_state = AcSequenceTurnOnStep2
    THEN LET s1 == send_ir_signal(s, ir_address_1, ir_command_2)
             s2 == [s1 EXCEPT !.sequence_state = AcSequenceIdle,
                              !.ac_is_on = TRUE,
                              !.next_signal_interval = one_hour_interval]
             s3 == [s2 EXCEPT !.remaining_time = s2.next_signal_interval]
             s4 == furi_timer_stop(s3, "signal_timer")
         IN  furi_timer_start(s4, "signal_timer", s3.next_signal_interval)
    ELSE s

\* Variant: the turn-off branch selects the one-hour interval.
send_signals_and_update_text_ShortOff(s) ==
    IF s.ac_is_on
    THEN LET s1 == send_ir_signal(s, ir_address_1, ir_command_1)
             s2 == [s1 EXCEPT !.ac_is_on = FALSE,
                              !.next_signal_interval = one_hour_interval]
             s3 == [s2 EXCEPT !.remaining_time = s2.next_signal_interval]
             s4 == furi_timer_stop(s3, "signal_timer")
         IN  furi_timer_start(s4, "signal_timer", s3.next_signal_interval)
    ELSE LET s1 == send_ir_signal(s, ir_address_1, ir_command_1)
             s2 == [s1 EXCEPT !.sequence_state = AcSequenceTurnOnStep1]
         IN  furi_timer_start(s2, "sequence_timer", one_second_interval)

\* Variant: the turn-on branch resets the countdown as soon as it starts
\* the sequence.
send_signals_and_update_text_EarlyReset(s) ==
    IF s.ac_is_on
    THEN LET s1 == send_ir_signal(s, ir_address_1, ir_command_1)
             s2 == [s1 EXCEPT !.ac_is_on = FALSE,
                              !.next_signal_interval = three_hour_interval]
             s3 == [s2 EXCEPT !.remaining_time = s2.next_signal_interval]
             s4 == furi_timer_stop(s3, "signal_timer")
         IN  furi_timer_start(s4, "signal_timer", s3.next_signal_interval)
    ELSE LET s1 == send_ir_signal(s, ir_address_1, ir_command_1)
             s2 == [s1 EXCEPT !.sequence_state = AcSequenceTurnOnStep1,
                              !.remaining_time = one_hour_interval]
         IN  furi_timer_start(s2, "sequence_timer", one_second_interval)

\* Variant: the turn-on branch reports the device ON at once.
send_signals_and_update_text_EagerOn(s) ==
    IF s.ac_is_on
    THEN LET s1 == send_ir_signal(s, ir_address_1, ir_command_1)
             s2 == [s1 EXCEPT !.ac_is_on = FALSE,
                              !.next_signal_interval = three_hour_interval]
             s3 == [s2 EXCEPT !.remaining_time = s2.next_signal_interval]
             s4 == furi_timer_stop(s3, "signal_timer")
         IN  furi_timer_start(s4, "signal_timer", s3.next_signal_interval)
    ELSE LET s1 == send_ir_signal(s, ir_address_1, ir_command_1)
             s2 == [s1 EXCEPT !.sequence_state = AcSequenceTurnOnStep1,
                              !.ac_is_on = TRUE]
         IN  furi_timer_start(s2, "sequence_timer", one_second_interval)

\* Variant: the turn-off branch does not reset the countdown.
send_signals_and_update_text_NoCountdownReset(s) ==
    IF s.ac_is_on
    THEN LET s1 == send_ir_signal(s, ir_address_1, ir_command_1)
             s2 == [s1 EXCEPT !.ac_is_on = FALSE,
                              !.next_signal_interval = three_hour_interval]
             s4 == furi_timer_stop(s2, "signal_timer")
         IN  furi_timer_start(s4, "signal_timer", s2.next_signal_interval)
    ELSE LET s1 == send_ir_signal(s, ir_address_1, ir_command_1)
             s2 == [s1 EXCEPT !.sequence_state = AcSequenceTurnOnStep1]
         IN  furi_timer_start(s2, "sequence_timer", one_second_interval)

send_signals_and_update_text(s) ==
    IF s.ac_is_on
    THEN LET s1 == send_ir_signal(s, ir_address_1, ir_command_1)
             s2 == [s1 EXCEPT !.ac_is_on = FALSE,
                              !.next_signal_interval = three_hour_interval]
             s3 == [s2 EXCEPT !.remaining_time = s2.next_signal_interval]
             s4 == furi_timer_stop(s3, "signal_timer")
         IN  furi_timer_start(s4, "signal_timer", s3.next_signal_interval)
    ELSE LET s1 == send_ir_signal(s, ir_address_1, ir_command_1)
             s2 == [s1 EXCEPT !.sequence_state = AcSequenceTurnOnStep1]
         IN  furi_timer_start(s2, "sequence_timer", one_second_interval)

\* Variant: the countdown tick stops its timer and does not start it again.
update_countdown_NoRearm(s) ==
    LET s1 == IF s.remaining_time >= one_minute_interval
              THEN [s EXCEPT !.remaining_time = @ - one_minute_interval]
              ELSE [s EXCEPT !.remaining_time = 0]
    IN  furi_timer_stop(s1, "countdown_timer")

\* Variant: the tick restarts the signal timer instead of its own.
update_countdown_WrongTimer(s) ==
    LET s1 == IF s.remaining_time >= one_minute_interval
              THEN [s EXCEPT !.remaining_time = @ - one_minute_interval]
              ELSE [s EXCEPT !.remaining_time = 0]
        s2 == furi_timer_stop(s1, "signal_timer")
    IN  furi_timer_start(s2, "signal_timer", one_minute_interval)

\* Variant: the tick subtracts a minute without the floor at zero.  (TLC's
\* integers cannot hold 2^32, so the wrapped unsigned value shows as the
\* negative number it is congruent to.)
update_countdown_NoClamp(s) ==
    LET s1 == [s EXCEPT !.remaining_time = @ - one_minute_interval]
        s2 == furi_timer_stop(s1, "countdown_timer")
    IN  furi_timer_start(s2, "countdown_timer", one_minute_interval)

update_countdown(s) ==
    LET s1 == IF s.remaining_time >= one_minute_interval
              THEN [s EXCEPT !.remaining_time = @ - one_minute_interval]
              ELSE [s EXCEPT !.remaining_time = 0]
        s2 == furi_timer_stop(s1, "countdown_timer")
    IN  furi_timer_start(s2, "countdown_timer", one_minute_interval)

\* ------------------------------------------------------------- plumbing
\* Does the callback transmit in state s?  (Guards the transmission bound.)
Transmits(cb, s) ==
    CASE cb = "signal_timer" -> TRUE
      [] cb = "sequence_timer" -> s.sequence_state # AcSequenceIdle
      [] OTHER -> FALSE

\* Install the result r of a callback (or of the main thread's call of one)
\* and the bookkeeping that observes the step.
Commit(r, kind, newpc) ==
    /\ ac_is_on' = r.ac_is_on
    /\ next_signal_interval' = r.next_signal_interval
    /\ remaining_time' = r.remaining_time
    /\ sequence_state' = r.sequence_state
    /\ timers' = r.timers
    /\ tx' = r.tx
    /\ pc' = newpc
    /\ use_after_free' = (use_after_free \/ r.uaf)
    /\ crashed' \in (IF r.uaf THEN BOOLEAN ELSE {FALSE})
    /\ step' = kind
    /\ LET flip == ~ac_is_on /\ r.ac_is_on
           leave == IF sequence_state = AcSequenceIdle
                       /\ r.sequence_state # AcSequenceIdle THEN 1 ELSE 0
           return == IF sequence_state # AcSequenceIdle
                        /\ r.sequence_state = AcSequenceIdle THEN 1 ELSE 0
       IN  /\ seq_leaves' = IF flip THEN 0 ELSE seq_leaves + leave
           /\ seq_returns' = IF flip THEN 0 ELSE seq_returns + return

Running == ~crashed /\ pc # "done"

\* -------------------------------------------------------------- initial
Init ==
    /\ ac_is_on = FALSE
    /\ next_signal_interval = one_hour_interval
    /\ remaining_time = one_hour_interval
    /\ sequence_state = AcSequenceIdle
    /\ timers = [id \in TimerIds |-> TimerStopped]
    /\ tx = <<>>
    /\ pc = "start"
    /\ event_queue = 0
    /\ presses = 0
    /\ use_after_free = FALSE
    /\ crashed = FALSE
    /\ step = "init"
    /\ cleanup_log = <<>>
    /\ exit_snapshot = [received |-> FALSE, sequence_state |-> AcSequenceIdle, ntx |-> 0]
    /\ seq_leaves = 0
    /\ seq_returns = 0

\* ---------------------------------------------------- main thread, start
\* ac_app_app line 194: the immediate schedule tick.
StartupTick ==
    /\ Running
    /\ pc = "start"
    /\ Len(tx) < MaxTx
    /\ Commit(send_signals_and_update_text(CallbackState), "startup_tick", "arm_countdown")
    /\ UNCHANGED <<event_queue, presses, cleanup_log, exit_snapshot>>

\* ac_app_app line 197.
ArmCountdown ==
    /\ Running
    /\ pc = "arm_countdown"
    /\ Commit(furi_timer_start(CallbackState, "countdown_timer", one_minute_interval),
              "arm_countdown", "loop")
    /\ UNCHANGED <<event_queue, presses, cleanup_log, exit_snapshot>>

\* ------------------------------------------------------- timer service
ArmedIds == {id \in TimerIds : timers[id].armed}

MinLeft == CHOOSE m \in {timers[id].left : id \in ArmedIds} :
               \A id \in ArmedIds : m <= timers[id].left

\* Time passes until the earliest armed timer expires.  The statements of
\* the start-up code take no time; the blocking calls of the main loop and
\* of the cleanup do.
Advance ==
    /\ Running
    /\ pc \notin {"start", "arm_countdown"}
    /\ ArmedIds # {}
    /\ \A id \in ArmedIds : timers[id].left > 0
    /\ timers' = [id \in TimerIds |->
                    IF timers[id].armed
                    THEN [timers[id] EXCEPT !.left = @ - MinLeft]
                    ELSE timers[id]]
    /\ step' = "advance"
    /\ UNCHANGED <<ac_is_on, next_signal_interval, remaining_time, sequence_state,
                   tx, pc, event_queue, presses, use_after_free, crashed,
                   cleanup_log, exit_snapshot, seq_leaves, seq_returns>>

Expired(id) == timers[id].armed /\ timers[id].left = 0

\* The signal timer expires: send_signals_and_update_text runs.
SignalTimerFire ==
    /\ Running
    /\ Expired("signal_timer")
    /\ Len(tx) < MaxTx
    /\ Commit(send_signals_and_update_text(Expire(CallbackState, "signal_timer")),
              "signal_tick", pc)
    /\ UNCHANGED <<event_queue, presses, cleanup_log, exit_snapshot>>

\* The sequence timer expires: sequence_step_callback runs.
SequenceTimerFire ==
    /\ Running
    /\ Expired("sequence_timer")
    /\ Transmits("sequence_timer", CallbackState) => Len(tx) < MaxTx
    /\ Commit(sequence_step_callback(Expire(CallbackState, "sequence_timer")),
              "sequence_step", pc)
    /\ UNCHANGED <<event_queue, presses, cleanup_log, exit_snapshot>>

\* The countdown timer expires: update_countdown runs.
CountdownTimerFire ==
    /\ Running
    /\ Expired("countdown_timer")
    /\ Commit(update_countdown(Expire(CallbackState, "countdown_timer")),
              "countdown_tick", pc)
    /\ UNCHANGED <<event_queue, presses, cleanup_log, exit_snapshot>>

\* ---------------------------------------------------------------- input
Keys == {"InputKeyBack", "InputKeyOk"}
Types == {"InputTypeShort", "InputTypeLong"}

\* ac_app_input_callback: a Back short-press queues the exit event; the
\* view port delivers input from line 186 until line 223.
ac_app_input_callback(key, type) ==
    IF key = "InputKeyBack" /\ type = "InputTypeShort"
    THEN event_queue + 1
    ELSE event_queue

Input ==
    /\ Running
    /\ presses < MaxPresses
    /\ \E key \in Keys, type \in Types :
        /\ ac_app_input_callback(key, type) <= EventQueueCapacity
        /\ event_queue' = ac_app_input_callback(key, type)
    /\ presses' = presses + 1
    /\ step' = "input"
    /\ UNCHANGED <<ac_is_on, next_signal_interval, remaining_time, sequence_state,
                   timers, tx, pc, use_after_free, crashed,
                   cleanup_log, exit_snapshot, seq_leaves, seq_returns>>

\* ac_app_app lines 201-208: every queued event has key Back, so the first
\* one received ends the loop.
ExitReceived ==
    /\ Running
    /\ pc = "loop"
    /\ event_queue > 0
    /\ event_queue' = event_queue - 1
    /\ pc' = "stop_signal_timer"
    /\ exit_snapshot' = [received |-> TRUE, sequence_state |-> sequence_state,
                         ntx |-> Len(tx)]
    /\ step' = "exit"
    /\ UNCHANGED <<ac_is_on, next_signal_interval, remaining_time, sequence_state,
                   timers, tx, presses, use_after_free, crashed,
                   cleanup_log, seq_leaves, seq_returns>>

\* -------------------------------------------------------------- cleanup
\* The order of the cleanup statements, lines 211-222.
CleanupOrder ==
    <<[pc |-> "stop_signal_timer", op |-> "stop", id |-> "signal_timer"],
      [pc |-> "free_signal_timer", op |-> "free", id |-> "signal_timer"],
      [pc |-> "stop_countdown_timer", op |-> "stop", id |-> "countdown_timer"],
      [pc |-> "free_countdown_timer", op |-> "free", id |-> "countdown_timer"],
      [pc |-> "stop_sequence_timer", op |-> "stop", id |-> "sequence_timer"],
      [pc |-> "free_sequence_timer", op |-> "free", id |-> "sequence_timer"]>>

CleanupNextPc(i) == IF i < Len(CleanupOrder) THEN CleanupOrder[i + 1].pc ELSE "done"

furi_timer_free(ts, id) == [ts EXCEPT ![id] = TimerFreed]

\* One statement of the cleanup: furi_timer_stop or furi_timer_free.
CleanupStep(i) ==
    /\ Running
    /\ pc = CleanupOrder[i].pc
    /\ timers' = IF CleanupOrder[i].op = "stop"
                 THEN furi_timer_stop(CallbackState, CleanupOrder[i].id).timers
                 ELSE furi_timer_free(timers, CleanupOrder[i].id)
    /\ cleanup_log' = Append(cleanup_log, [op |-> CleanupOrder[i].op, id |-> CleanupOrder[i].id])
    /\ pc' = CleanupNextPc(i)
    /\ step' = "cleanup"
    /\ UNCHANGED <<ac_is_on, next_signal_interval, remaining_time, sequence_state,
                   tx, event_queue, presses, use_after_free, crashed,
                   exit_snapshot, seq_leaves, seq_returns>>

StopSignalTimer == CleanupStep(1)
FreeSignalTimer == CleanupStep(2)
StopCountdownTimer == CleanupStep(3)
FreeCountdownTimer == CleanupStep(4)
StopSequenceTimer == CleanupStep(5)
FreeSequenceTimer == CleanupStep(6)

\* ------------------------------------------------------- specification
Next ==
    \/ StartupTick
    \/ ArmCountdown
    \/ Advance
    \/ SignalTimerFire
    \/ SequenceTimerFire
    \/ CountdownTimerFire
    \/ Input
    \/ ExitReceived
    \/ StopSignalTimer
    \/ FreeSignalTimer
    \/ StopCountdownTimer
    \/ FreeCountdownTimer
    \/ StopSequenceTimer
    \/ FreeSequenceTimer

Spec == Init /\ [][Next]_vars

TypeOK ==
    /\ ac_is_on \in BOOLEAN
    /\ next_signal_interval \in {one_hour_interval, three_hour_interval}
    /\ remaining_time \in 0..three_hour_interval
    /\ sequence_state \in AcSequenceState
    /\ Len(tx) <= MaxTx
    /\ event_queue \in 0..EventQueueCapacity

\* ------------------------------------------- callbacks on arbitrary state
\* The callbacks as functions of the state they find: the start state is
\* drawn from the values the globals and the timers can hold, with the main
\* thread in its event loop, and the timer service runs the callbacks.
RemainingTimes == {0, 30000, one_minute_interval, one_hour_interval}

TimerExpired(ms) == [armed |-> TRUE, interval |-> ms, left |-> 0, freed |-> FALSE]

InitCallbacks ==
    /\ ac_is_on \in BOOLEAN
    /\ next_signal_interval \in {one_hour_interval, three_hour_interval}
    /\ remaining_time \in RemainingTimes
    /\ sequence_state \in AcSequenceState
    /\ \E sig \in {TimerStopped, TimerExpired(next_signal_interval)},
          cnt \in {TimerStopped, TimerExpired(one_minute_interval)},
          sq \in {TimerStopped, TimerExpired(one_second_interval)} :
            timers = [signal_timer |-> sig, countdown_timer |-> cnt, sequence_timer |-> sq]
    /\ tx = <<>>
    /\ pc = "loop"
    /\ event_queue = 0
    /\ presses = 0
    /\ use_after_free = FALSE
    /\ crashed = FALSE
    /\ step = "init"
    /\ cleanup_log = <<>>
    /\ exit_snapshot = [received |-> FALSE, sequence_state |-> AcSequenceIdle, ntx |-> 0]
    /\ seq_leaves = 0
    /\ seq_returns = 0

NextCallbacks ==
    \/ Advance
    \/ SignalTimerFire
    \/ SequenceTimerFire
    \/ CountdownTimerFire

SpecCallbacks == InitCallbacks /\ [][NextCallbacks]_vars

\* --------------------------------------------------- phase of the timers
\* The countdown timer is armed once, at start-up, and then only by its own
\* ticks, while every turn-on delays the signal timer by the two sequence
\* steps: after the k-th turn-on has completed, the countdown timer is
\* k * PhaseShift (modulo one minute) further into its minute.  The start
\* state is the state right after such a completion, for every k up to
\* MaxPhase; the transmissions before it are not recorded.
MaxPhase == 30

PhaseShift == 2 * one_second_interval

PhaseLeft(k) == one_minute_interval - ((PhaseShift * k) % one_minute_interval)

\* A countdown expiry that coincides with the completion is still pending.
PhaseLefts == {PhaseLeft(k) : k \in 1..MaxPhase} \cup {0}

InitPhases ==
    /\ ac_is_on = TRUE
    /\ next_signal_interval = one_hour_interval
    /\ remaining_time = one_hour_interval
    /\ sequence_state = AcSequenceIdle
    /\ \E left \in PhaseLefts :
        timers = [signal_timer |-> TimerArmed(one_hour_interval),
                  countdown_timer |-> [armed |-> TRUE, interval |-> one_minute_interval,
                                       left |-> left, freed |-> FALSE],
                  sequence_timer |-> TimerStopped]
    /\ tx = <<>>
    /\ pc = "loop"
    /\ event_queue = 0
    /\ presses = 0
    /\ use_after_free = FALSE
    /\ crashed = FALSE
    /\ step = "init"
    /\ cleanup_log = <<>>
    /\ exit_snapshot = [received |-> FALSE, sequence_state |-> AcSequenceIdle, ntx |-> 0]
    /\ seq_leaves = 0
    /\ seq_returns = 0

SpecPhases == InitPhases /\ [][NextCallbacks]_vars

\* ------------------------------------------------ running without an exit
\* The application left running: no key is pressed, so the main thread stays
\* in its event loop and only the timer service acts.  The log tx keeps the
\* first MaxTx transmissions and the later ones are sent without being
\* recorded, so the controller is not stopped by the bound.  Every armed
\* timer eventually expires and every expired timer's callback eventually
\* runs (weak fairness), and the start-up code runs to the event loop.
Unrecorded(r) == IF Len(r.tx) > MaxTx THEN [r EXCEPT !.tx = tx] ELSE r

SignalTimerFireLive ==
    /\ Running
    /\ Expired("signal_timer")
    /\ Commit(Unrecorded(send_signals_and_update_text(Expire(CallbackState, "signal_timer"))),
              "signal_tick", pc)
    /\ UNCHANGED <<event_queue, presses, cleanup_log, exit_snapshot>>

SequenceTimerFireLive ==
    /\ Running
    /\ Expired("sequence_timer")
    /\ Commit(Unrecorded(sequence_step_callback(Expire(CallbackState, "sequence_timer"))),
              "sequence_step", pc)
    /\ UNCHANGED <<event_queue, presses, cleanup_log, exit_snapshot>>

NextLive ==
    \/ StartupTick
    \/ ArmCountdown
    \/ Advance
    \/ SignalTimerFireLive
    \/ SequenceTimerFireLive
    \/ CountdownTimerFire

SpecLive ==
    /\ Init
    /\ [][NextLive]_vars
    /\ WF_vars(StartupTick)
    /\ WF_vars(ArmCountdown)
    /\ WF_vars(Advance)
    /\ WF_vars(SignalTimerFireLive)
    /\ WF_vars(SequenceTimerFireLive)
    /\ WF_vars(CountdownTimerFire)

\* ================================================================ claims
Power == [address |-> ir_address_1, command |-> ir_command_1]
Mode == [address |-> ir_address_1, command |-> ir_command_2]

\* The step just taken is a run of the schedule-timer callback.
SignalTick == step' = "signal_tick"
\* The step just taken is a run of send_signals_and_update_text, from the
\* timer or from the start-up call.
ScheduleTick == step' \in {"signal_tick", "startup_tick"}
SequenceStep == step' = "sequence_step"
CountdownTick == step' = "countdown_tick"

\* C1: a schedule-timer callback run with ac_is_on = true transmits exactly
\* the power code, and on return ac_is_on is false, next_signal_interval and
\* remaining_time are 10 800 000, the signal timer is armed for 10 800 000 ms,
\* the sequencer is still Idle and the sequence timer is not armed.
C1_OffTick ==
    [][(SignalTick /\ ac_is_on) =>
        /\ tx' = Append(tx, Power)
        /\ ac_is_on' = FALSE
        /\ next_signal_interval' = 10800000
        /\ remaining_time' = 10800000
        /\ timers'["signal_timer"] = TimerArmed(10800000)
        /\ sequence_state = AcSequenceIdle
        /\ sequence_state' = AcSequenceIdle
        /\ ~timers'["sequence_timer"].armed]_vars

C1_Witness ==
    /\ step = "signal_tick"
    /\ ~ac_is_on
    /\ sequence_state = AcSequenceIdle
    /\ Len(tx) = 4
    /\ tx[4] = Power
    /\ remaining_time = 10800000
    /\ timers["signal_timer"] = TimerArmed(10800000)

\* C2: from application start and until the exit event is received, the
\* first transmission is the power code sent by the immediate tick, the
\* second and third are the mode code sent by the first and second expiry of
\* the sequence timer, and after that second expiry ac_is_on is true, the
\* sequencer is Idle, next_signal_interval = remaining_time = 3 600 000 and
\* the signal timer is armed for 3 600 000 ms.
C2_StartupSequence ==
    [][(~exit_snapshot.received /\ tx' # tx) =>
        /\ Len(tx) = 0 => (step' = "startup_tick" /\ tx' = <<Power>>)
        /\ Len(tx) = 1 => (step' = "sequence_step" /\ tx' = <<Power, Mode>>)
        /\ Len(tx) = 2 =>
            /\ step' = "sequence_step"
            /\ tx' = <<Power, Mode, Mode>>
            /\ ac_is_on'
            /\ sequence_state' = AcSequenceIdle
            /\ next_signal_interval' = 3600000
            /\ remaining_time' = 3600000
            /\ timers'["signal_timer"] = TimerArmed(3600000)]_vars

C2_Witness ==
    /\ step = "sequence_step"
    /\ ~exit_snapshot.received
    /\ tx = <<Power, Mode, Mode>>
    /\ ac_is_on
    /\ sequence_state = AcSequenceIdle
    /\ remaining_time = 3600000
    /\ timers["signal_timer"] = TimerArmed(3600000)

\* C3: a schedule tick run with ac_is_on = false transmits the power code,
\* puts the sequencer in TurnOnStep1 and arms the sequence timer for 1000 ms;
\* it leaves ac_is_on, next_signal_interval and remaining_time unchanged and
\* the signal timer un-armed.
C3_OnTickStartsSequence ==
    [][(ScheduleTick /\ ~ac_is_on) =>
        /\ tx' = Append(tx, Power)
        /\ sequence_state' = AcSequenceTurnOnStep1
        /\ timers'["sequence_timer"] = TimerArmed(1000)
        /\ ac_is_on' = ac_is_on
        /\ next_signal_interval' = next_signal_interval
        /\ remaining_time' = remaining_time
        /\ ~timers'["signal_timer"].armed]_vars

\* A turn-on started by the signal timer after a countdown has run down.
C3_Witness ==
    /\ step = "signal_tick"
    /\ sequence_state = AcSequenceTurnOnStep1
    /\ ~ac_is_on
    /\ Len(tx) = 5
    /\ remaining_time = 0
    /\ next_signal_interval = 10800000
    /\ timers["sequence_timer"] = TimerArmed(1000)
    /\ ~timers["signal_timer"].armed

\* C4: a start of the sequencer transmits the power code and arms the
\* sequence timer for 1000 ms; the expiry taken in TurnOnStep1 transmits one
\* mode code and re-arms the timer for 1000 ms, the expiry taken in
\* TurnOnStep2 transmits one mode code and returns to Idle with the sequence
\* timer un-armed; the mode code is transmitted by no other step; and a
\* sequence-timer callback run in Idle transmits nothing, changes no state
\* and arms no timer.
C4_ThreeTransmissions ==
    [][/\ (ScheduleTick /\ ~ac_is_on) =>
            /\ tx' = Append(tx, Power)
            /\ sequence_state' = AcSequenceTurnOnStep1
            /\ timers'["sequence_timer"] = TimerArmed(1000)
       /\ (SequenceStep /\ sequence_state = AcSequenceTurnOnStep1) =>
            /\ tx' = Append(tx, Mode)
            /\ sequence_state' = AcSequenceTurnOnStep2
            /\ timers'["sequence_timer"] = TimerArmed(1000)
       /\ (SequenceStep /\ sequence_state = AcSequenceTurnOnStep2) =>
            /\ tx' = Append(tx, Mode)
            /\ sequence_state' = AcSequenceIdle
            /\ ~timers'["sequence_timer"].armed
       /\ (SequenceStep /\ sequence_state = AcSequenceIdle) =>
            /\ tx' = tx
            /\ sequence_state' = AcSequenceIdle
            /\ ac_is_on' = ac_is_on
            /\ next_signal_interval' = next_signal_interval
            /\ remaining_time' = remaining_time
            /\ \A id \in TimerIds : timers'[id].armed => timers'[id] = timers[id]
            /\ ~timers'["sequence_timer"].armed
       /\ (tx' # tx /\ tx'[Len(tx')] = Mode) =>
            (SequenceStep /\ sequence_state # AcSequenceIdle)
       /\ sequence_state' # sequence_state =>
            \/ ScheduleTick /\ ~ac_is_on
            \/ SequenceStep /\ sequence_state # AcSequenceIdle]_vars

\* The second expiry of a turn-on has sent the third code and returned the
\* sequencer to Idle with its timer un-armed.
C4_Witness ==
    /\ step = "sequence_step"
    /\ sequence_state = AcSequenceIdle
    /\ ac_is_on
    /\ Len(tx) >= 3
    /\ tx[Len(tx) - 2] = Power
    /\ tx[Len(tx) - 1] = Mode
    /\ tx[Len(tx)] = Mode
    /\ ~timers["sequence_timer"].armed

\* C5: ac_is_on changes only in a schedule-timer tick taken with ac_is_on
\* true (to false) and in the sequencer step taken in TurnOnStep2 that
\* returns the sequencer to Idle (to true), and it does change in both; no
\* other step changes it; and when it changes from false to true the
\* sequencer has left Idle exactly once and returned to Idle exactly once
\* since the previous such change (or since the start).
C5_DeviceStateChanges ==
    [][/\ ac_is_on' # ac_is_on =>
            \/ SignalTick /\ ac_is_on /\ ~ac_is_on'
            \/ /\ SequenceStep
               /\ sequence_state = AcSequenceTurnOnStep2
               /\ sequence_state' = AcSequenceIdle
               /\ ac_is_on'
       /\ (SignalTick /\ ac_is_on) => ~ac_is_on'
       /\ (SequenceStep /\ sequence_state = AcSequenceTurnOnStep2) =>
            (ac_is_on' /\ ~ac_is_on /\ sequence_state' = AcSequenceIdle)
       /\ (~ac_is_on /\ ac_is_on') =>
            /\ seq_leaves = 1
            /\ seq_returns
                 + (IF sequence_state # AcSequenceIdle /\ sequence_state' = AcSequenceIdle
                    THEN 1 ELSE 0) = 1]_vars

\* The second OFF->ON change of a run.
C5_Witness ==
    /\ step = "sequence_step"
    /\ ac_is_on
    /\ sequence_state = AcSequenceIdle
    /\ Len(tx) = 7
    /\ seq_leaves = 0
    /\ seq_returns = 0

\* C6: while the turn-on sequence is in progress (TurnOnStep1 or
\* TurnOnStep2) ac_is_on is false.
C6_NotOnDuringSequence ==
    sequence_state \in {AcSequenceTurnOnStep1, AcSequenceTurnOnStep2} => ~ac_is_on

\* A turn-on that follows a turn-off is half way through.
C6_Witness ==
    /\ sequence_state = AcSequenceTurnOnStep2
    /\ ~ac_is_on
    /\ Len(tx) = 6
    /\ tx[4] = Power

IsCleanupCall(e, op, id) == e.op = op /\ e.id = id

\* C7: no furi_timer_free is made by the cleanup before furi_timer_stop has
\* been made on each of the three timers.
C7_AllStoppedBeforeAnyFree ==
    \A i \in 1..Len(cleanup_log) :
        cleanup_log[i].op = "free" =>
            \A id \in TimerIds :
                \E j \in 1..(i - 1) : IsCleanupCall(cleanup_log[j], "stop", id)

\* C8: when the exit event was received with the sequencer in TurnOnStep1,
\* nothing is transmitted after it.
C8_NoTransmissionAfterExit ==
    (exit_snapshot.received /\ exit_snapshot.sequence_state = AcSequenceTurnOnStep1)
        => Len(tx) = exit_snapshot.ntx

\* C9 as stated: every run of a timer callback returns with that callback's
\* own timer armed.
C9_EveryCallbackRearmsOwnTimer ==
    [][/\ SignalTick => timers'["signal_timer"].armed
       /\ SequenceStep => timers'["sequence_timer"].armed
       /\ CountdownTick => timers'["countdown_timer"].armed]_vars

\* C9 amended: the countdown tick always re-arms the countdown timer for
\* 60 000 ms; the schedule-timer tick returns with the signal timer armed
\* exactly when it ran with ac_is_on true, and the sequence step returns
\* with the sequence timer armed exactly when it ran in TurnOnStep1.
C9_RearmsOwnTimerWhenContinuing ==
    [][/\ CountdownTick => timers'["countdown_timer"] = TimerArmed(60000)
       /\ SignalTick => (timers'["signal_timer"].armed <=> ac_is_on)
       /\ (SignalTick /\ ac_is_on) =>
            timers'["signal_timer"] = TimerArmed(next_signal_interval')
       /\ SequenceStep =>
            (timers'["sequence_timer"].armed <=> sequence_state = AcSequenceTurnOnStep1)
       /\ (SequenceStep /\ sequence_state = AcSequenceTurnOnStep1) =>
            timers'["sequence_timer"] = TimerArmed(1000)]_vars

\* The sequence step from TurnOnStep2 has returned with its timer un-armed
\* while the countdown timer, re-armed by its own ticks, is running.
C9_Witness ==
    /\ step = "sequence_step"
    /\ sequence_state = AcSequenceIdle
    /\ ac_is_on
    /\ Len(tx) = 7
    /\ ~timers["sequence_timer"].armed
    /\ timers["countdown_timer"].armed
    /\ timers["countdown_timer"].interval = 60000

\* C10 as stated: the schedule interval matches the device state.
C10_IntervalMatchesDeviceState ==
    /\ ac_is_on => next_signal_interval = 3600000
    /\ ~ac_is_on => next_signal_interval = 10800000

\* C10 amended: next_signal_interval is 3 600 000 whenever ac_is_on is true;
\* whenever ac_is_on is false it is 10 800 000, except before the first
\* turn-on has completed (fewer than three codes sent), when it still has
\* its initial value 3 600 000.
C10_IntervalMatchesAfterFirstTurnOn ==
    /\ ac_is_on => next_signal_interval = 3600000
    /\ (~ac_is_on /\ Len(tx) >= 3) => next_signal_interval = 10800000
    /\ (~ac_is_on /\ Len(tx) < 3) => next_signal_interval = 3600000

C10_Witness ==
    /\ ~ac_is_on
    /\ next_signal_interval = 10800000
    /\ Len(tx) = 4
    /\ step = "countdown_tick"

C12_CountdownTickFrame ==
    [][CountdownTick =>
        /\ tx' = tx
        /\ ac_is_on' = ac_is_on
        /\ sequence_state' = sequence_state
        /\ next_signal_interval' = next_signal_interval
        /\ timers'["signal_timer"] = timers["signal_timer"]
        /\ timers'["sequence_timer"] = timers["sequence_timer"]
        /\ pc' = pc
        /\ event_queue' = event_queue]_vars

\* A countdown tick has run while the signal timer was mid-way to expiry.
C12_Witness ==
    /\ step = "countdown_tick"
    /\ timers["signal_timer"].armed
    /\ timers["signal_timer"].left > 0
    /\ timers["signal_timer"].left < timers["signal_timer"].interval
    /\ remaining_time = 3600000 - 60000
    /\ ac_is_on
    /\ tx = <<Power, Mode, Mode>>

\* C13: a countdown tick lowers remaining_time by exactly 60 000 when it is
\* at least 60 000 and sets it to 0 otherwise; remaining_time never goes
\* below zero and always lies in 0 .. 10 800 000.
C13_CountdownClamped ==
    /\ [](remaining_time >= 0 /\ remaining_time <= 10800000)
    /\ [][CountdownTick =>
            remaining_time' = IF remaining_time >= 60000
                              THEN remaining_time - 60000
                              ELSE 0]_vars

\* A tick has left the countdown at zero and re-armed itself.
C13_Witness ==
    /\ step = "countdown_tick"
    /\ remaining_time = 0
    /\ timers["countdown_timer"] = TimerArmed(60000)

\* C14: from the moment start-up has armed the countdown timer until the
\* main loop receives the exit event (pc = "loop"), the countdown timer is
\* armed, whatever ac_is_on and sequence_state are, and every countdown tick
\* taken in that time re-arms it for 60 000 ms.
C14_CountdownAlwaysArmed ==
    /\ [](pc = "loop" => timers["countdown_timer"].armed)
    /\ [][(pc = "loop" /\ CountdownTick) =>
            timers'["countdown_timer"] = TimerArmed(60000)]_vars

\* The countdown has been re-armed by a tick during the three-hour wait.
C14_Witness ==
    /\ pc = "loop"
    /\ step = "countdown_tick"
    /\ ~ac_is_on
    /\ sequence_state = AcSequenceIdle
    /\ next_signal_interval = 10800000
    /\ remaining_time = 10800000 - 60000
    /\ timers["countdown_timer"] = TimerArmed(60000)

\* C15: while the signal timer is armed, the displayed countdown
\* remaining_time and the time left until the signal timer expires differ
\* by at most 60 000 ms, whatever the phase of the countdown timer.
C15_CountdownTracksSignalTimer ==
    timers["signal_timer"].armed =>
        /\ remaining_time - timers["signal_timer"].left <= 60000
        /\ timers["signal_timer"].left - remaining_time <= 60000

\* The countdown is ahead of the signal timer by more than half a minute
\* during the three-hour wait, after ticks and a reset.
C15_Witness ==
    /\ timers["signal_timer"].armed
    /\ timers["signal_timer"].interval = 10800000
    /\ timers["signal_timer"].left < 10800000 - 60000
    /\ timers["signal_timer"].left - remaining_time > 30000
    /\ ~ac_is_on

\* C16: with no exit event and every armed timer eventually expiring, every
\* turn-on sequence that starts eventually completes with the device
\* reported ON, and ac_is_on is true infinitely often and false infinitely
\* often.
C16_NeverStalls ==
    /\ (sequence_state # AcSequenceIdle) ~> (sequence_state = AcSequenceIdle /\ ac_is_on)
    /\ []<>ac_is_on
    /\ []<>(~ac_is_on)

\* The third turn-on of a run has completed, past the end of the log.
C16_Witness ==
    /\ step = "sequence_step"
    /\ ac_is_on
    /\ sequence_state = AcSequenceIdle
    /\ Len(tx) = MaxTx
    /\ timers["signal_timer"] = TimerArmed(3600000)
    /\ timers["countdown_timer"].left = PhaseLeft(3)

\* The command at position i of the infinite repetition
\* (power, mode, mode, power).
CyclePattern == <<58905, 63240, 63240, 58905>>

\* C17: the transmitted commands form a prefix of the repetition of
\* (power, mode, mode, power) -- three codes for a turn-on, one power code
\* for a turn-off, alternating and starting with a turn-on -- and every
\* transmission uses address 0x00006F98.
C17_TransmissionPattern ==
    \A i \in 1..Len(tx) :
        /\ tx[i].command = CyclePattern[((i - 1) % 4) + 1]
        /\ tx[i].address = 28568

\* Two full cycles have been transmitted.
C17_Witness ==
    /\ Len(tx) = 8
    /\ tx[5].command = 58905
    /\ tx[7].command = 63240
    /\ tx[8].command = 58905
    /\ tx[8].address = 28568

\* C18: the turn-on branch of the schedule tick runs only with the
\* sequencer Idle: the signal timer never fires, and the start-up call never
\* runs, in TurnOnStep1 or TurnOnStep2, and the signal timer is never armed
\* in those states.
C18_StartOnlyFromIdle ==
    /\ [](sequence_state # AcSequenceIdle => ~timers["signal_timer"].armed)
    /\ [][ScheduleTick => sequence_state = AcSequenceIdle]_vars

\* A start made by the signal timer while the countdown is still running.
C18_Witness ==
    /\ step = "signal_tick"
    /\ sequence_state = AcSequenceTurnOnStep1
    /\ Len(tx) = 5
    /\ tx[5] = Power
    /\ timers["countdown_timer"].armed
    /\ pc = "loop"

\* C19: between the return of the start-up tick and the receipt of the exit
\* event, the sequence timer is armed exactly when the sequencer is not Idle
\* and the signal timer exactly when it is Idle, so exactly one of the two
\* is armed.
C19_ExactlyOneScheduleTimerArmed ==
    pc \in {"arm_countdown", "loop"} =>
        /\ timers["sequence_timer"].armed <=> sequence_state # AcSequenceIdle
        /\ timers["signal_timer"].armed <=> sequence_state = AcSequenceIdle
        /\ timers["sequence_timer"].armed # timers["signal_timer"].armed

\* The signal timer alone is armed during the three-hour wait.
C19_Witness ==
    /\ pc = "loop"
    /\ sequence_state = AcSequenceIdle
    /\ ~ac_is_on
    /\ timers["signal_timer"].armed
    /\ timers["signal_timer"].interval = 10800000
    /\ ~timers["sequence_timer"].armed
    /\ Len(tx) = 4

\* C20: no timer callback makes a timer call on a timer that has been freed.
C20_NoUseAfterFree == ~use_after_free
====
